---- MODULE Spec2Model ----
(***************************************************************************)
(* reshape: `gen` fingerprints every regular file under a root and prints  *)
(* a manifest of the non-colliding ones; `apply` reads a manifest and      *)
(* hardlinks the matching source files to the manifest's paths.            *)
(* Source: src/src/reshape/__main__.py                                     *)
(***************************************************************************)
EXTENDS Integers, Sequences, FiniteSets, TLC

(* ------------------------------ bounds --------------------------------- *)
\* regular files of the initial filesystem
MaxFiles == 3
\* objects of the JSON array read by apply
MaxEntries == 2
\* environment failures (I/O, permission) injected in one session
MaxFaults == 1

\* f.read(8192)
ChunkSize == 8192

(* ------------------------------ paths ---------------------------------- *)
\* A path is the sequence of its components, relative to the working
\* directory.  The root argument is the directory r.
Root == <<"r">>
PA == <<"r", "a">>
PB == <<"r", "b">>
PC == <<"r", "c">>
PCX == <<"r", "c", "x">>
\* the paths whose directory entry the model tracks, in a fixed order
PathOrder == <<PA, PB, PC, PCX>>
Paths == {PathOrder[i] : i \in 1..Len(PathOrder)}

Parent(p) == SubSeq(p, 1, Len(p) - 1)
IsPrefix(d, p) == Len(d) < Len(p) /\ SubSeq(p, 1, Len(d)) = d

\* file contents: byte strings
Contents == {<< >>, <<1>>}
Inodes == 1..MaxFiles

Absent == [kind |-> "absent", ino |-> 0]
Dir == [kind |-> "dir", ino |-> 0]
File(i) == [kind |-> "file", ino |-> i]
Nodes == {Absent, Dir} \cup {File(i) : i \in Inodes}

\* the node at p; the working directory and the root exist throughout
Node(f, p) == IF p \in Paths THEN f[p] ELSE IF IsPrefix(p, PA) THEN Dir ELSE Absent
is_file(f, p) == Node(f, p).kind = "file"
is_dir(f, p) == Node(f, p).kind = "dir"

(* --------------------------- FileEntry --------------------------------- *)
\* hasher.update(chunk): the digest is a function of the bytes fed so far
RECURSIVE update(_, _)
update(h, chunk) ==
  IF chunk = << >> THEN h ELSE update(h * 3 + Head(chunk) + 1, Tail(chunk))

\* while chunk := f.read(8192): hasher.update(chunk)
RECURSIVE read_loop(_, _)
read_loop(h, rest) ==
  IF rest = << >> THEN h
  ELSE LET n == IF Len(rest) < ChunkSize THEN Len(rest) ELSE ChunkSize
       IN read_loop(update(h, SubSeq(rest, 1, n)), SubSeq(rest, n + 1, Len(rest)))

\* FileEntry.get_hash on a file of the given content
get_hash(content) == read_loop(0, content)

Hashes == {get_hash(c) : c \in Contents}

\* str(path): the components joined by "/"
RECURSIVE str(_)
str(p) ==
  IF Len(p) <= 1 THEN p ELSE <<Head(p), "/">> \o str(Tail(p))

\* Path(s): the components between the separators
RECURSIVE Path(_)
Path(s) ==
  IF s = << >> THEN << >>
  ELSE IF Head(s) = "/" THEN Path(Tail(s)) ELSE <<Head(s)>> \o Path(Tail(s))

to_dict(e) == [path |-> str(e.path), hexhash |-> e.hexhash]
from_dict(d) == [path |-> Path(d.path), hexhash |-> d.hexhash]

(* ------------------------------ state ---------------------------------- *)
VARIABLES
  fs,             \* directory entries: Paths -> Nodes
  data,           \* inode -> content
  session,        \* "gen", "apply" (apply run twice) or "roundtrip" (gen | apply)
  cmd,            \* the command of the running process
  run,            \* 1 or 2: which process of the session
  pc,             \* position of the running process
  stdin,          \* the JSON array on standard input
  stdout,         \* the JSON arrays printed
  stderr,         \* diagnostics
  files,          \* files / source_files
  total_bytes,
  hashes,         \* hashes / source_hashes, in insertion order
  idx,            \* position of the running for loop
  entries,        \* gen's entries
  input_hashes,   \* apply's hexhash -> path
  new_path,
  target_path,
  ops,            \* filesystem calls made by the running process
  exc,            \* the exception that ended the process
  faults,         \* environment failures so far
  snap,           \* the filesystem at the start of each process
  would           \* what the later groups would have done, had the first
                  \* environment failure of a link transition not occurred

vars == <<fs, data, session, cmd, run, pc, stdin, stdout, stderr, files,
          total_bytes, hashes, idx, entries, input_hashes, new_path,
          target_path, ops, exc, faults, snap, would>>

(* ---------------------------- filesystem ------------------------------- *)
st_size(f, d, p) == Len(d[Node(f, p).ino])

\* the regular files root.rglob yields
ScanSet(f) == {p \in Paths : IsPrefix(Root, p) /\ is_file(f, p)}

Perms(S) ==
  {s \in [1..Cardinality(S) -> S] : \A i, j \in 1..Cardinality(S) : i # j => s[i] # s[j]}

RECURSIVE Sum(_, _, _)
Sum(f, d, s) == IF s = << >> THEN 0 ELSE st_size(f, d, Head(s)) + Sum(f, d, Tail(s))

\* a directory's entries exist only in a directory
WellFormed(f) == \A p \in Paths : f[p] # Absent => is_dir(f, Parent(p))

\* inodes are numbered in order of first use
Canonical(f) ==
  \A i \in 1..Len(PathOrder) :
    LET n == f[PathOrder[i]].ino
    IN n > 1 => \E j \in 1..(i - 1) : f[PathOrder[j]].ino = n - 1

Used(f) == {f[p].ino : p \in Paths} \ {0}

\* Path.mkdir(parents=True, exist_ok=True)
RECURSIVE mkdir(_, _)
mkdir(f, d) ==
  IF is_dir(f, d) THEN [ok |-> TRUE, fs |-> f]
  ELSE IF is_file(f, d) \/ d \notin Paths THEN [ok |-> FALSE, fs |-> f]
  ELSE LET r == mkdir(f, Parent(d))
       IN IF r.ok THEN [ok |-> TRUE, fs |-> [r.fs EXCEPT ![d] = Dir]] ELSE r

\* faulty variant: the existing file is left in place
unlink_m(f, p) ==
  [ok |-> ~is_dir(f, p) /\ is_dir(f, Parent(p)), fs |-> f]

\* Path.unlink(missing_ok=True)
unlink(f, p) ==
  IF is_dir(f, p) \/ ~is_dir(f, Parent(p)) THEN [ok |-> FALSE, fs |-> f]
  ELSE IF is_file(f, p) THEN [ok |-> TRUE, fs |-> [f EXCEPT ![p] = Absent]]
  ELSE [ok |-> TRUE, fs |-> f]

\* new.hardlink_to(target): os.link(target, new)
hardlink_to(f, new, target) ==
  IF new \in Paths /\ is_file(f, target) /\ Node(f, new) = Absent /\ is_dir(f, Parent(new))
  THEN [ok |-> TRUE, fs |-> [f EXCEPT ![new] = Node(f, target)]]
  ELSE [ok |-> FALSE, fs |-> f]

(* ------------------------------- Init ---------------------------------- *)
NoFailure == [n |-> 0, at |-> 0, ops |-> << >>]

DictObjects == {to_dict([path |-> p, hexhash |-> h]) : p \in Paths, h \in Hashes}
Manifests == UNION {[1..n -> DictObjects] : n \in 0..MaxEntries}

Init ==
  /\ fs \in [Paths -> Nodes]
  /\ WellFormed(fs)
  /\ Canonical(fs)
  /\ Cardinality({p \in Paths : is_file(fs, p)}) <= MaxFiles
  /\ \A p \in Paths : is_dir(fs, p) => \E q \in Paths : Parent(q) = p
  /\ data \in [Inodes -> Contents]
  /\ \A i \in Inodes \ Used(fs) : data[i] = << >>
  /\ session \in {"gen", "apply", "roundtrip"}
  /\ cmd = IF session = "apply" THEN "apply" ELSE "gen"
  /\ run = 1
  /\ pc = "start"
  /\ stdin \in IF session = "apply" THEN Manifests ELSE {<< >>}
  /\ stdout = << >>
  /\ stderr = << >>
  /\ files = << >>
  /\ total_bytes = 0
  /\ hashes = << >>
  /\ idx = 1
  /\ entries = << >>
  /\ input_hashes = << >>
  /\ new_path = << >>
  /\ target_path = << >>
  /\ ops = << >>
  /\ exc = "none"
  /\ faults = 0
  /\ snap = <<fs>>
  /\ would = NoFailure

(* --------------------------- shared steps ------------------------------ *)
Diag(k, h, ps, flag) == [kind |-> k, hexhash |-> h, paths |-> ps, flag |-> flag]

\* the environment may fail a call while it has failures left
Fails == IF faults < MaxFaults THEN {FALSE, TRUE} ELSE {FALSE}

HasKey(hs, h) == \E i \in 1..Len(hs) : hs[i].hexhash = h
KeyIndex(hs, h) == CHOOSE i \in 1..Len(hs) : hs[i].hexhash = h

\* hashes[hexhash].append(path) on a defaultdict(list)
append(hs, h, p) ==
  IF HasKey(hs, h)
  THEN [hs EXCEPT ![KeyIndex(hs, h)].paths = Append(@, p)]
  ELSE Append(hs, [hexhash |-> h, paths |-> <<p>>])

\* the list comprehension over rglob, and the locals set before the loop
scan ==
  /\ files' \in Perms(ScanSet(fs))
  /\ total_bytes' = Sum(fs, data, files')
  /\ hashes' = << >>
  /\ idx' = 1
  /\ pc' = "hash"

\* faulty variant: the unreadable file is skipped and the loop goes on
read_error_m ==
  /\ exc' = "OSError"
  /\ faults' = faults + 1
  /\ idx' = idx + 1
  /\ UNCHANGED <<pc, hashes, stderr>>

\* get_hash raises: nothing catches it, the process ends
read_error ==
  /\ pc' = "crashed"
  /\ exc' = "OSError"
  /\ faults' = faults + 1
  /\ UNCHANGED <<hashes, idx, stderr>>

\* one iteration of `for path in files`
hash_step ==
  /\ pc = "hash"
  /\ idx <= Len(files)
  /\ \E io_error \in Fails :
       LET path == files[idx]
           hexhash == get_hash(data[Node(fs, path).ino])
           hs == append(hashes, hexhash, path)
           collision == Len(hs[KeyIndex(hs, hexhash)].paths) > 1
       IN IF io_error
          THEN read_error
          ELSE IF total_bytes = 0
          THEN /\ pc' = "crashed"
               /\ exc' = "ZeroDivisionError"
               /\ UNCHANGED <<hashes, idx, stderr, faults>>
          ELSE /\ hashes' = hs
               /\ stderr' = Append(stderr, Diag("progress", hexhash, <<path>>, collision))
               /\ idx' = idx + 1
               /\ UNCHANGED <<pc, exc, faults>>
  /\ UNCHANGED <<fs, data, session, cmd, run, stdin, stdout, files, total_bytes,
                 entries, input_hashes, new_path, target_path, ops, snap, would>>

\* `for path in files` is exhausted
hash_exit ==
  /\ pc = "hash"
  /\ idx > Len(files)
  /\ pc' = "dispose"
  /\ idx' = 1
  /\ UNCHANGED <<fs, data, session, cmd, run, stdin, stdout, stderr, files,
                 total_bytes, hashes, entries, input_hashes, new_path,
                 target_path, ops, exc, faults, snap, would>>

(* -------------------------------- gen ---------------------------------- *)
GenScan ==
  /\ cmd = "gen"
  /\ pc = "start"
  /\ scan
  /\ UNCHANGED <<fs, data, session, cmd, run, stdin, stdout, stderr, entries,
                 input_hashes, new_path, target_path, ops, exc, faults, snap, would>>

GenHash == cmd = "gen" /\ hash_step

GenHashExit == cmd = "gen" /\ hash_exit

\* faulty variant: a colliding group is printed too
unambiguous_m(paths) == Len(paths) >= 1

\* len(paths) == 1
unambiguous(paths) == Len(paths) = 1

\* one iteration of `for hexhash, paths in hashes.items()`
GenDispose ==
  /\ cmd = "gen"
  /\ pc = "dispose"
  /\ idx <= Len(hashes)
  /\ LET hexhash == hashes[idx].hexhash
         paths == hashes[idx].paths
     IN IF unambiguous(paths)
        THEN /\ entries' = Append(entries, [path |-> paths[1], hexhash |-> hexhash])
             /\ UNCHANGED stderr
        ELSE /\ stderr' = Append(stderr, Diag("collision", hexhash, paths, TRUE))
             /\ UNCHANGED entries
  /\ idx' = idx + 1
  /\ UNCHANGED <<fs, data, session, cmd, run, pc, stdin, stdout, files,
                 total_bytes, hashes, input_hashes, new_path, target_path, ops,
                 exc, faults, snap, would>>

\* click.echo(json.dumps([entry.to_dict() for entry in entries]))
GenEmit ==
  /\ cmd = "gen"
  /\ pc = "dispose"
  /\ idx > Len(hashes)
  /\ stdout' = Append(stdout, [i \in 1..Len(entries) |-> to_dict(entries[i])])
  /\ pc' = "done"
  /\ UNCHANGED <<fs, data, session, cmd, run, stdin, stderr, files, total_bytes,
                 hashes, idx, entries, input_hashes, new_path, target_path, ops,
                 exc, faults, snap, would>>

(* ------------------------------- apply --------------------------------- *)
\* {entry.hexhash: entry.path for entry in input_entries}: the last entry wins
dict_of(es) ==
  [h \in {es[i].hexhash : i \in 1..Len(es)} |->
     LET last == CHOOSE i \in 1..Len(es) :
                   /\ es[i].hexhash = h
                   /\ \A j \in (i + 1)..Len(es) : es[j].hexhash # h
     IN es[last].path]

\* reads the manifest from stdin, then scans the root
ApplyRead ==
  /\ cmd = "apply"
  /\ pc = "start"
  /\ input_hashes' = dict_of([i \in 1..Len(stdin) |-> from_dict(stdin[i])])
  /\ scan
  /\ UNCHANGED <<fs, data, session, cmd, run, stdin, stdout, stderr, entries,
                 new_path, target_path, ops, exc, faults, snap, would>>

ApplyHash == cmd = "apply" /\ hash_step

ApplyHashExit == cmd = "apply" /\ hash_exit

\* faulty variant: only three or more paths count as a collision
colliding_m(paths) == Len(paths) > 2

\* len(paths) > 1
colliding(paths) == Len(paths) > 1

\* the head of one iteration of `for hexhash, paths in source_hashes.items()`
ApplyDispose ==
  /\ cmd = "apply"
  /\ pc = "dispose"
  /\ idx <= Len(hashes)
  /\ LET hexhash == hashes[idx].hexhash
         paths == hashes[idx].paths
     IN IF hexhash \notin DOMAIN input_hashes
        THEN /\ idx' = idx + 1
             /\ UNCHANGED <<pc, stderr, new_path, target_path>>
        ELSE IF colliding(paths)
        THEN /\ stderr' = Append(stderr, Diag("collision", hexhash, paths, TRUE))
             /\ idx' = idx + 1
             /\ UNCHANGED <<pc, new_path, target_path>>
        ELSE /\ new_path' = input_hashes[hexhash]
             /\ target_path' = paths[1]
             /\ stderr' = Append(stderr, Diag("linking", hexhash, <<paths[1], input_hashes[hexhash]>>, FALSE))
             /\ pc' = "mkdir"
             /\ UNCHANGED idx
  /\ UNCHANGED <<fs, data, session, cmd, run, stdin, stdout, files, total_bytes,
                 hashes, entries, input_hashes, ops, exc, faults, snap, would>>

Op(name, ok) ==
  [op |-> name, hexhash |-> hashes[idx].hexhash, path |-> new_path, ok |-> ok]

\* the steps (a), (b), (c) of one entry from step `from` on, each made if
\* the one before succeeded, with no environment failure
RECURSIVE transition(_, _, _, _, _)
transition(f, h, new, target, from) ==
  IF from = "dispose" THEN [fs |-> f, ops |-> << >>]
  ELSE
    LET r == IF from = "mkdir" THEN mkdir(f, Parent(new))
             ELSE IF from = "unlink" THEN unlink(f, new)
             ELSE hardlink_to(f, new, target)
        rec == [op |-> from, hexhash |-> h, path |-> new, ok |-> r.ok]
        rest == transition(r.fs, h, new, target,
                           IF from = "mkdir" THEN "unlink"
                           ELSE IF from = "unlink" THEN "link" ELSE "dispose")
    IN IF r.ok THEN [fs |-> rest.fs, ops |-> <<rec>> \o rest.ops]
       ELSE [fs |-> f, ops |-> <<rec>>]

\* the calls of the groups g, g+1, ... of source_hashes on filesystem f,
\* with no environment failure
RECURSIVE dispose_from(_, _)
dispose_from(f, g) ==
  IF g > Len(hashes) THEN << >>
  ELSE LET hexhash == hashes[g].hexhash
           paths == hashes[g].paths
       IN IF hexhash \notin DOMAIN input_hashes \/ colliding(paths)
          THEN dispose_from(f, g + 1)
          ELSE LET t == transition(f, hexhash, input_hashes[hexhash], paths[1], "mkdir")
               IN t.ops \o dispose_from(t.fs, g + 1)

\* faulty variant: the exception of a failed step is not caught
step_m(name, r, fault, next) ==
  /\ faults' = IF fault THEN faults + 1 ELSE faults
  /\ IF r.ok /\ ~fault
     THEN /\ fs' = r.fs
          /\ ops' = Append(ops, Op(name, TRUE))
          /\ pc' = next
          /\ idx' = IF next = "dispose" THEN idx + 1 ELSE idx
          /\ UNCHANGED exc
     ELSE /\ ops' = Append(ops, Op(name, FALSE))
          /\ pc' = "crashed"
          /\ exc' = "Exception"
          /\ UNCHANGED <<fs, idx>>
  /\ UNCHANGED <<data, session, cmd, run, stdin, stdout, stderr, files,
                 total_bytes, hashes, entries, input_hashes, new_path,
                 target_path, snap, would>>

\* a step of the link transition: on success go on to `next`, on an
\* exception report it and `continue` with the next group
step(name, r, fault, next) ==
  /\ faults' = IF fault THEN faults + 1 ELSE faults
  /\ would' =
       IF fault /\ r.ok
       THEN [n |-> would.n + 1,
             at |-> IF would.n = 0 THEN Len(ops) + 1 ELSE would.at,
             ops |-> IF would.n = 0
                     THEN dispose_from(
                            transition(r.fs, hashes[idx].hexhash, new_path, target_path, next).fs,
                            idx + 1)
                     ELSE would.ops]
       ELSE would
  /\ IF r.ok /\ ~fault
     THEN /\ fs' = r.fs
          /\ ops' = Append(ops, Op(name, TRUE))
          /\ pc' = next
          /\ idx' = IF next = "dispose" THEN idx + 1 ELSE idx
          /\ UNCHANGED stderr
     ELSE /\ ops' = Append(ops, Op(name, FALSE))
          /\ stderr' = Append(stderr, Diag("error", hashes[idx].hexhash, <<new_path>>, FALSE))
          /\ pc' = "dispose"
          /\ idx' = idx + 1
          /\ UNCHANGED fs
  /\ UNCHANGED <<data, session, cmd, run, stdin, stdout, files, total_bytes,
                 hashes, entries, input_hashes, new_path, target_path, exc, snap>>

\* new_path.parent.mkdir(parents=True, exist_ok=True)
ApplyMkdir ==
  /\ cmd = "apply"
  /\ pc = "mkdir"
  /\ \E fault \in Fails : step("mkdir", mkdir(fs, Parent(new_path)), fault, "unlink")

\* new_path.unlink(missing_ok=True)
ApplyUnlink ==
  /\ cmd = "apply"
  /\ pc = "unlink"
  /\ \E fault \in Fails : step("unlink", unlink(fs, new_path), fault, "link")

\* new_path.hardlink_to(target_path)
ApplyLink ==
  /\ cmd = "apply"
  /\ pc = "link"
  /\ \E fault \in Fails : step("link", hardlink_to(fs, new_path, target_path), fault, "dispose")

\* the loop over source_hashes is exhausted: apply returns
ApplyExit ==
  /\ cmd = "apply"
  /\ pc = "dispose"
  /\ idx > Len(hashes)
  /\ pc' = "done"
  /\ UNCHANGED <<fs, data, session, cmd, run, stdin, stdout, stderr, files,
                 total_bytes, hashes, idx, entries, input_hashes, new_path,
                 target_path, ops, exc, faults, snap, would>>

(* ------------------------------ session -------------------------------- *)
\* the next process of the session starts: apply once more on the same
\* input, or apply on the manifest gen printed
Invoke ==
  /\ pc = "done"
  /\ run = 1
  /\ session \in {"apply", "roundtrip"}
  /\ run' = 2
  /\ cmd' = "apply"
  /\ pc' = "start"
  /\ stdin' = IF session = "roundtrip" THEN stdout[Len(stdout)] ELSE stdin
  /\ snap' = Append(snap, fs)
  /\ stderr' = << >>
  /\ files' = << >>
  /\ total_bytes' = 0
  /\ hashes' = << >>
  /\ idx' = 1
  /\ entries' = << >>
  /\ input_hashes' = << >>
  /\ new_path' = << >>
  /\ target_path' = << >>
  /\ ops' = << >>
  /\ would' = NoFailure
  /\ UNCHANGED <<fs, data, session, stdout, exc, faults>>

Next ==
  \/ GenScan
  \/ GenHash
  \/ GenHashExit
  \/ GenDispose
  \/ GenEmit
  \/ ApplyRead
  \/ ApplyHash
  \/ ApplyHashExit
  \/ ApplyDispose
  \/ ApplyMkdir
  \/ ApplyUnlink
  \/ ApplyLink
  \/ ApplyExit
  \/ Invoke

Spec == Init /\ [][Next]_vars

TypeOK ==
  /\ WellFormed(fs)
  /\ pc \in {"start", "hash", "dispose", "mkdir", "unlink", "link", "done", "crashed"}

(* ------------------------------ helpers -------------------------------- *)
\* the fingerprint of the file at p
FingerprintAt(f, p) == get_hash(data[Node(f, p).ino])
\* the files under the root that carry fingerprint h
FilesOf(f, h) == {p \in ScanSet(f) : FingerprintAt(f, p) = h}
\* the filesystem the running process started on
StartFs == snap[Len(snap)]
Count(s, P(_)) == Cardinality({i \in 1..Len(s) : P(s[i])})
LastOp == ops[Len(ops)]

(* -------------------------------- C3 ----------------------------------- *)
\* C3: when gen completes, the fingerprints of the manifest it printed are
\* exactly the fingerprints carried by exactly one file under the root; no
\* fingerprint is printed twice, and each is paired with the path of its
\* single file.
C3_CollisionExclusion ==
  (cmd = "gen" /\ pc = "done") =>
    LET M == stdout[Len(stdout)]
    IN /\ \A h \in Hashes :
            (Cardinality(FilesOf(fs, h)) = 1) <=> (\E i \in 1..Len(M) : M[i].hexhash = h)
       /\ \A i, j \in 1..Len(M) : M[i].hexhash = M[j].hexhash => i = j
       /\ \A i \in 1..Len(M) : \E p \in FilesOf(fs, M[i].hexhash) : M[i].path = str(p)

\* gen completed on a root with a colliding pair and a unique file
C3_Witness ==
  /\ cmd = "gen"
  /\ pc = "done"
  /\ \E h \in Hashes : Cardinality(FilesOf(fs, h)) = 2
  /\ Len(stdout[Len(stdout)]) = 1

(* -------------------------------- C6 ----------------------------------- *)
\* C6: on a root whose files can all be read (no read fails), gen never
\* ends with an exception.
C6_GenCannotFail ==
  (cmd = "gen" /\ faults = 0) => pc # "crashed"

(* -------------------------------- C7 ----------------------------------- *)
\* C7: a read failure during fingerprinting ends the process at that file:
\* the files before it are grouped, gen has printed nothing, and apply has
\* made no filesystem call and left the filesystem as it found it.
C7_FatalNoPartialResult ==
  (exc = "OSError") =>
    /\ pc = "crashed"
    /\ Count(stderr, LAMBDA d : d.kind = "progress") = idx - 1
    /\ cmd = "gen" => stdout = << >>
    /\ cmd = "apply" => ops = << >> /\ fs = StartFs

\* apply died on its second file, after grouping a file the manifest names
C7_Witness ==
  /\ exc = "OSError"
  /\ cmd = "apply"
  /\ idx = 2
  /\ hashes[1].hexhash \in DOMAIN input_hashes

(* -------------------------------- C4 ----------------------------------- *)
\* C4: for a fingerprint the manifest names and the source scan groups two
\* or more paths under, apply makes no mkdir, unlink or hardlink call, and
\* when it returns it has printed exactly one collision diagnostic for the
\* fingerprint, listing the paths of the group.
C4_CollisionBlocksLinking ==
  (cmd = "apply") =>
    \A g \in 1..Len(hashes) :
      (Len(hashes[g].paths) > 1 /\ hashes[g].hexhash \in DOMAIN input_hashes) =>
        /\ \A i \in 1..Len(ops) : ops[i].hexhash # hashes[g].hexhash
        /\ pc = "done" =>
             /\ Count(stderr, LAMBDA d : d.kind = "collision" /\ d.hexhash = hashes[g].hexhash) = 1
             /\ \E i \in 1..Len(stderr) :
                  /\ stderr[i].kind = "collision"
                  /\ stderr[i].hexhash = hashes[g].hexhash
                  /\ stderr[i].paths = hashes[g].paths

\* apply returned after meeting a collision on a named fingerprint and
\* linking another file
C4_Witness ==
  /\ cmd = "apply"
  /\ pc = "done"
  /\ \E g \in 1..Len(hashes) :
       Len(hashes[g].paths) > 1 /\ hashes[g].hexhash \in DOMAIN input_hashes
  /\ ops # << >>

(* -------------------------------- C5 ----------------------------------- *)
\* the fingerprints of the groups 1..n that apply links: named by the
\* manifest and carried by one source path
Eligible(n) ==
  SelectSeq([g \in 1..n |-> hashes[g]],
            LAMBDA grp : grp.hexhash \in DOMAIN input_hashes /\ Len(grp.paths) = 1)
Mkdirs == SelectSeq(ops, LAMBDA o : o.op = "mkdir")
Failed == SelectSeq(ops, LAMBDA o : ~o.ok)
Errors == SelectSeq(stderr, LAMBDA d : d.kind = "error")

\* C5 as claimed: after one environment failure in a link transition, the
\* calls made for the later groups, and their results, are those that would
\* have been made had the failing call succeeded (here with no manifest
\* path being a scanned source path).
C5_LaterGroupsUnchanged ==
  (/\ cmd = "apply" /\ pc = "done" /\ would.n = 1
   /\ \A h \in DOMAIN input_hashes : input_hashes[h] \notin ScanSet(StartFs)) =>
    SubSeq(ops, would.at + 1, Len(ops)) = would.ops

\* C5 (amended): every failed step is reported by one diagnostic naming its
\* entry, no further step of that entry is made, the process does not end
\* with an exception once a step was made, and every group of the scan is
\* still disposed of by the rule of the loop: between entries, the entries
\* whose transition was started are exactly the groups met so far that the
\* manifest names and that have one path, in scan order.
C5_FailureIsolation ==
  (cmd = "apply") =>
    /\ Len(Errors) = Len(Failed)
    /\ \A k \in 1..Len(Failed) :
         Errors[k].hexhash = Failed[k].hexhash /\ Errors[k].paths = <<Failed[k].path>>
    /\ \A i, j \in 1..Len(ops) : (i < j /\ ~ops[i].ok) => ops[j].hexhash # ops[i].hexhash
    /\ ops # << >> => pc # "crashed"
    /\ pc \in {"dispose", "done"} =>
         [k \in 1..Len(Mkdirs) |-> Mkdirs[k].hexhash]
           = [k \in 1..Len(Eligible(idx - 1)) |-> Eligible(idx - 1)[k].hexhash]

\* apply returned after a failed step of one entry and a transition of a
\* later entry
C5_Witness ==
  /\ cmd = "apply"
  /\ pc = "done"
  /\ \E i, j \in 1..Len(ops) : i < j /\ ~ops[i].ok /\ ops[j].hexhash # ops[i].hexhash

(* -------------------------------- C8 ----------------------------------- *)
\* C8: the calls of one entry are mkdir, unlink, hardlink in that order,
\* each made only after the one before it succeeded; from the successful
\* unlink until a successful hardlink, and still after a failed hardlink,
\* nothing exists at the target.
C8_OrderAndWindow ==
  (cmd = "apply") =>
    /\ \A i \in 1..Len(ops) :
         /\ ops[i].op = "mkdir" =>
              i = 1 \/ ~ops[i - 1].ok \/ ops[i - 1].op = "link"
         /\ ops[i].op = "unlink" =>
              i > 1 /\ ops[i - 1] = [ops[i] EXCEPT !.op = "mkdir", !.ok = TRUE]
         /\ ops[i].op = "link" =>
              i > 1 /\ ops[i - 1] = [ops[i] EXCEPT !.op = "unlink", !.ok = TRUE]
    /\ pc = "mkdir" => (ops = << >> \/ ~LastOp.ok \/ LastOp.op = "link")
    /\ pc = "unlink" =>
         /\ ops # << >> /\ LastOp.op = "mkdir" /\ LastOp.ok /\ LastOp.path = new_path
         /\ is_dir(fs, Parent(new_path))
    /\ pc = "link" =>
         /\ ops # << >> /\ LastOp.op = "unlink" /\ LastOp.ok /\ LastOp.path = new_path
         /\ Node(fs, new_path) = Absent
    /\ (pc \in {"dispose", "done"} /\ ops # << >> /\ LastOp.op = "link") =>
         IF LastOp.ok
         THEN is_file(fs, LastOp.path)
         ELSE Node(fs, LastOp.path) = Absent

\* an entry whose target existed before the run failed at the hardlink
C8_Witness ==
  /\ cmd = "apply"
  /\ pc = "dispose"
  /\ ops # << >>
  /\ LastOp.op = "link"
  /\ ~LastOp.ok
  /\ is_file(StartFs, LastOp.path)

(* -------------------------------- C1 ----------------------------------- *)
\* C1: the root holds one file S, with fingerprint F, and the manifest is
\* the one entry (T, F); no call fails for an environment reason, the
\* directories above T exist or can be made, and T is not a directory.
\* When apply has returned, S and T both exist and are the same file.
C1_SharedIdentity ==
  (/\ session = "apply" /\ run = 1 /\ pc = "done" /\ faults = 0
   /\ Cardinality(ScanSet(StartFs)) = 1
   /\ Len(stdin) = 1
   /\ mkdir(StartFs, Parent(Path(stdin[1].path))).ok
   /\ ~is_dir(StartFs, Path(stdin[1].path))
   /\ \A S \in ScanSet(StartFs) : stdin[1].hexhash = FingerprintAt(StartFs, S)) =>
    \A S \in ScanSet(StartFs) :
      LET T == Path(stdin[1].path)
      IN is_file(fs, S) /\ is_file(fs, T) /\ Node(fs, S) = Node(fs, T)

(* -------------------------------- C2 ----------------------------------- *)
\* C2: with no call failing for an environment reason, a second apply on
\* the same manifest leaves the filesystem as the first apply left it.
C2_Idempotence ==
  (session = "apply" /\ run = 2 /\ pc = "done" /\ faults = 0) => fs = StartFs

(* -------------------------------- C9 ----------------------------------- *)
\* C9: after gen's manifest is fed to apply on the same root, every file
\* that was under the root is still at its path, with its content.
C9_RoundTripPreservesTree ==
  (session = "roundtrip" /\ run = 2 /\ pc = "done" /\ faults = 0) =>
    \A p \in ScanSet(snap[1]) :
      is_file(fs, p) /\ FingerprintAt(fs, p) = FingerprintAt(snap[1], p)

(* -------------------------------- C10 ---------------------------------- *)
\* C10: right after a successful hardlink for fingerprint F, the file at
\* the target has the content whose fingerprint is F.
C10_LinkedContentMatches ==
  (cmd = "apply" /\ pc = "dispose" /\ ops # << >> /\ LastOp.op = "link" /\ LastOp.ok) =>
    FingerprintAt(fs, LastOp.path) = LastOp.hexhash

====
